---- MODULE Spec2Model ----
(***************************************************************************)
(* Model of skills/.curated/email-send-notification/scripts/send_email.py: *)
(* configuration resolution, the connection step, the SMTP session driven  *)
(* by the probe path (_probe_smtp_connection) and by the send path (main). *)
(* One run of the model is one invocation of main(argv).  The network and  *)
(* smtplib/ssl calls are the environment: each call either returns or      *)
(* raises one of the exceptions that call can raise.                       *)
(***************************************************************************)
EXTENDS Integers, Sequences, FiniteSets, TLC

VARIABLES
    pc,          \* position of the invocation in main / the probe / the connect step
    args,        \* argparse.Namespace; a field main reads only after _resolve_config
                 \* (check_config, subject, body, dry_run) joins the record when it is read
    cfg,         \* _ResolvedConfig built by _resolve_config (NoCfg before that)
    ctx,         \* the ssl.SSLContext _connect_smtp builds for tls_mode ssl
    addrinfos,   \* _create_connection_socket: the addrinfo entries not yet attempted
    attempted,   \* _create_connection_socket: the (family, address) pairs attempted in this call
    connect_errors, \* what the failed connects of this call raised: the error of the first
                 \* failed attempt and the error of the latest one (NoErrors before any)
    last_exc,    \* _create_connection_socket: last_exc
    candidates,  \* the list getaddrinfo returned to this call of _create_connection_socket
    open_socks,  \* the sockets currently open: set of (family, address) pairs
    is_ssl,      \* second component of _connect_smtp's result
    session,     \* smtp.sock of the SMTP object: "none", "open" or "closed"
    cleanup_raised, \* which of smtp.quit() and smtp.close() of the finally clause raised
    login_password, \* the password argument of the smtp.login call issued (NoLogin before)
    exc,         \* the exception now propagating (NoneV when none)
    failed_at,   \* the exception the run has raised and the phase that raised it (NoFailure before)
    trace,       \* protocol operations issued on the SMTP session, in order
    handshakes,  \* the TLS handshakes performed: where, and under which context
    net_io,      \* TRUE once any name resolution or other network I/O has been issued
    out,         \* lines written to stdout
    printed_ips, \* the addresses of the resolved_ips= line the probe has just printed
                 \* (kept until the connect step starts)
    infos,       \* _probe_smtp_connection: what its getaddrinfo call returned (<<>> when it
                 \* raised; kept until the connect step starts)
    err,         \* lines written to stderr
    ret,         \* the return value _probe_smtp_connection has evaluated
    exit_code    \* exit status of the process (Running while it runs)

vars == <<pc, args, cfg, ctx, addrinfos, attempted, last_exc, connect_errors, candidates,
          open_socks, is_ssl, session, cleanup_raised,
          login_password, exc, failed_at, trace, handshakes, net_io, out, printed_ips, infos,
          err, ret, exit_code>>

\* the locals of _create_connection_socket, and the history of its call
connVars == <<addrinfos, attempted, last_exc, connect_errors, candidates>>
\* what the process has written
ioVars == <<out, printed_ips, infos, err>>

----------------------------------------------------------------------------
(* Values *)

NoneV == "None"

Running == 0 - 1

\* bound: number of addrinfo entries one getaddrinfo call returns
MaxAddrInfos == 2

\* Texts the command line / environment supplies in the model.
HostTexts == {NoneV, "smtp.example.com"}
PortTexts == {NoneV, "70000", "x"}
FromTexts == {NoneV, "a@example.com"}
ToTexts == {<<>>, <<";">>, <<"a", ",", " ", ";", "b">>}
UserTexts == {NoneV, "u"}
PasswordTexts == {NoneV, "", "p"}
FamilyTexts == {"auto", "4", " IPv6", "ipx"}
TlsTexts == {NoneV, "1.2", "TLS1.3 ", "2.0"}
TlsModes == {"none", "starttls", "ssl"}

\* str.strip().lower() on the texts above.
StripLower(v) ==
    CASE v = " IPv6" -> "ipv6"
      [] v = "TLS1.3 " -> "tls1.3"
      [] OTHER -> v

\* int(str): the texts of the model that int() accepts, and their values.
IntParses(v) == v \in {"2525", "25", "465", "587", "0", "70000"}

IntOf(v) ==
    CASE v = "2525" -> 2525
      [] v = "25" -> 25
      [] v = "465" -> 465
      [] v = "587" -> 587
      [] v = "70000" -> 70000
      [] OTHER -> 0

----------------------------------------------------------------------------
(* Pure helpers of send_email.py *)

\* _split_recipients: replace ";" by ",", split on ",", strip, drop empty chunks.
\* A text is a sequence of one-character strings; the result is a sequence of chunks,
\* each chunk a sequence of characters.
RECURSIVE SplitOn(_, _, _)
SplitOn(text, cur, acc) ==
    IF text = <<>> THEN Append(acc, cur)
    ELSE IF Head(text) \in {",", ";"}
         THEN SplitOn(Tail(text), <<>>, Append(acc, cur))
         ELSE SplitOn(Tail(text), Append(cur, Head(text)), acc)

RECURSIVE LStrip(_)
LStrip(s) == IF s # <<>> /\ Head(s) = " " THEN LStrip(Tail(s)) ELSE s

RECURSIVE RStrip(_)
RStrip(s) == IF s # <<>> /\ s[Len(s)] = " " THEN RStrip(SubSeq(s, 1, Len(s) - 1)) ELSE s

Strip(s) == RStrip(LStrip(s))

RECURSIVE DropEmpty(_)
DropEmpty(chunks) ==
    IF chunks = <<>> THEN <<>>
    ELSE IF Strip(Head(chunks)) = <<>>
         THEN DropEmpty(Tail(chunks))
         ELSE <<Strip(Head(chunks))>> \o DropEmpty(Tail(chunks))

split_recipients(value) == DropEmpty(SplitOn(value, <<>>, <<>>))

default_port(tls_mode) == IF tls_mode = "ssl" THEN 465 ELSE 587

\* _parse_address_family: "error" stands for the ValueError.
parse_address_family(value) ==
    LET v == StripLower(value) IN
    IF v \in {"auto", "any", ""} THEN "auto"
    ELSE IF v \in {"ipv4", "4", "inet", "af_inet"} THEN "ipv4"
    ELSE IF v \in {"ipv6", "6", "inet6", "af_inet6"} THEN "ipv6"
    ELSE "error"

\* _family_candidates asking for every family whatever address_family says
family_candidates_unspec(address_family) == <<"AF_UNSPEC">>

\* _family_candidates, lines 101-106
family_candidates(address_family) ==
    IF address_family = "ipv4" THEN <<"AF_INET">>
    ELSE IF address_family = "ipv6" THEN <<"AF_INET6">>
    ELSE <<"AF_UNSPEC">>

TLS_VERSION_ALIASES ==
    [v \in {"1", "1.0", "1.1", "1.2", "1.3", "tls1", "tls1.0", "tls1.1", "tls1.2", "tls1.3"} |->
        CASE v \in {"1", "1.0", "tls1", "tls1.0"} -> "1.0"
          [] v \in {"1.1", "tls1.1"} -> "1.1"
          [] v \in {"1.2", "tls1.2"} -> "1.2"
          [] v \in {"1.3", "tls1.3"} -> "1.3"]

\* _parse_tls_version: "error" stands for the ValueError.
parse_tls_version(value) ==
    IF value = NoneV THEN NoneV
    ELSE LET v == StripLower(value) IN
         IF v = "" THEN NoneV
         ELSE IF v \notin DOMAIN TLS_VERSION_ALIASES THEN "error"
         ELSE TLS_VERSION_ALIASES[v]

\* _tls_version_obj: the ssl.TLSVersion member, an IntEnum, by its integer value.
tls_version_obj(version) ==
    CASE version = "1.0" -> 769
      [] version = "1.1" -> 770
      [] version = "1.2" -> 771
      [] version = "1.3" -> 772

\* ssl.create_default_context(): the platform default version range
\* (TLSVersion.MINIMUM_SUPPORTED = -2, TLSVersion.MAXIMUM_SUPPORTED = -1).
create_default_context == [minimum_version |-> -2, maximum_version |-> -1]

configure_tls_versions(c, tls_min_version, tls_max_version) ==
    IF tls_min_version = NoneV /\ tls_max_version = NoneV THEN c
    ELSE [minimum_version |->
              IF tls_min_version # NoneV THEN tls_version_obj(tls_min_version)
              ELSE c.minimum_version,
          maximum_version |->
              IF tls_max_version # NoneV THEN tls_version_obj(tls_max_version)
              ELSE c.maximum_version]

----------------------------------------------------------------------------
(* _resolve_config *)

Truthy(v) == v # NoneV /\ v # ""

\* password_missing with the check of line 227 left out
password_missing_unchecked(a) == FALSE

\* line 227: a username without a password
password_missing(a) == Truthy(a.smtp_username) /\ a.smtp_password = NoneV

\* tls_range_invalid with the comparison of line 241 turned round
tls_range_invalid_reversed(tls_min_version, tls_max_version) ==
    /\ tls_min_version # NoneV
    /\ tls_max_version # NoneV
    /\ tls_version_obj(tls_min_version) < tls_version_obj(tls_max_version)

\* lines 240-242: both versions set and min above max
tls_range_invalid(tls_min_version, tls_max_version) ==
    /\ tls_min_version # NoneV
    /\ tls_max_version # NoneV
    /\ tls_version_obj(tls_min_version) > tls_version_obj(tls_max_version)

\* The parser.error message _resolve_config ends with on the namespace a, or NoneV.
config_error(a) ==
    IF ~Truthy(a.smtp_host) THEN "--smtp-host is required"
    ELSE IF a.smtp_port # NoneV /\ ~IntParses(a.smtp_port) THEN "--smtp-port must be an integer"
    ELSE IF ~Truthy(a.from_addr) THEN "--from is required"
    ELSE IF a.to = <<>> THEN "--to is required"
    ELSE IF split_recipients(a.to) = <<>> THEN "--to must contain at least one recipient"
    ELSE IF password_missing(a) THEN "--smtp-password is required when --smtp-username is set"
    ELSE IF parse_address_family(a.address_family) = "error" THEN "invalid address family"
    ELSE IF parse_tls_version(a.tls_min_version) = "error" THEN "invalid TLS version"
    ELSE IF parse_tls_version(a.tls_max_version) = "error" THEN "invalid TLS version"
    ELSE IF tls_range_invalid(parse_tls_version(a.tls_min_version),
                              parse_tls_version(a.tls_max_version))
         THEN "--tls-min-version must be <= --tls-max-version"
    ELSE NoneV

\* The _ResolvedConfig built from a namespace that config_error accepts.
resolved_config(a) ==
    [smtp_host |-> a.smtp_host,
     smtp_port |-> IF a.smtp_port = NoneV THEN default_port(a.smtp_tls) ELSE IntOf(a.smtp_port),
     smtp_tls |-> a.smtp_tls,
     smtp_username |-> a.smtp_username,
     smtp_password |-> a.smtp_password,
     address_family |-> parse_address_family(a.address_family),
     tls_min_version |-> parse_tls_version(a.tls_min_version),
     tls_max_version |-> parse_tls_version(a.tls_max_version),
     from_addr |-> a.from_addr,
     to_addrs |-> split_recipients(a.to)]

NoCfg == <<>>

NoLogin == "no login"

NoFailure == [phase |-> NoneV, exc |-> NoneV]

NoErrors == [first |-> NoneV, latest |-> NoneV]

----------------------------------------------------------------------------
(* The run *)

Init ==
    /\ pc = "parse_args"
    /\ args = <<>>
    /\ cfg = NoCfg
    /\ ctx = NoneV
    /\ addrinfos = <<>>
    /\ attempted = <<>>
    /\ last_exc = NoneV
    /\ connect_errors = NoErrors
    /\ candidates = <<>>
    /\ open_socks = {}
    /\ is_ssl = FALSE
    /\ session = "none"
    /\ cleanup_raised = {}
    /\ login_password = NoLogin
    /\ exc = NoneV
    /\ failed_at = NoFailure
    /\ trace = <<>>
    /\ handshakes = <<>>
    /\ net_io = FALSE
    /\ out = <<>>
    /\ printed_ips = <<>>
    /\ infos = <<>>
    /\ err = <<>>
    /\ ret = Running
    /\ exit_code = Running

\* The process ends with status code.
Exit(code) == pc' = "done" /\ exit_code' = code

\* parser.error(message): usage and message on stderr, SystemExit(2).
ParserError(message) == err' = Append(err, message) /\ Exit(2)

\* main, lines 477-481: parse_args, then --print-config-template.
Main_ParseArgs ==
    /\ pc = "parse_args"
    /\ \E t \in BOOLEAN, probe \in BOOLEAN, auth \in BOOLEAN :
         /\ probe \/ ~auth       \* --probe-auth is read only with --probe
         /\ args' = [print_config_template |-> t, probe |-> probe, probe_auth |-> auth]
         /\ IF t
            THEN out' = Append(out, "config_template") /\ Exit(0)
            ELSE pc' = "resolve_config" /\ UNCHANGED <<out, exit_code>>
    /\ UNCHANGED <<cfg, ctx, connVars, open_socks, is_ssl, session, cleanup_raised, login_password, exc,
                   failed_at, trace, handshakes, net_io, printed_ips, infos, err, ret>>

\* main, line 483: cfg = _resolve_config(parser, args).
Main_ResolveConfig ==
    /\ pc = "resolve_config"
    /\ \E host \in HostTexts, port \in PortTexts, tls \in TlsModes, user \in UserTexts,
          password \in PasswordTexts, family \in FamilyTexts, tmin \in TlsTexts,
          tmax \in TlsTexts, from \in FromTexts, to \in ToTexts :
         LET a == args @@ [smtp_host |-> host, smtp_port |-> port, smtp_tls |-> tls,
                           smtp_username |-> user, smtp_password |-> password,
                           address_family |-> family, tls_min_version |-> tmin,
                           tls_max_version |-> tmax, from_addr |-> from, to |-> to]
         IN /\ args' = a
            /\ IF config_error(a) # NoneV
               THEN ParserError(config_error(a)) /\ UNCHANGED cfg
               ELSE /\ cfg' = resolved_config(a)
                    /\ pc' = "check_config"
                    /\ UNCHANGED <<err, exit_code>>
    /\ UNCHANGED <<ctx, connVars, open_socks, is_ssl, session, cleanup_raised, login_password, exc,
                   failed_at, trace, handshakes, net_io, out, printed_ips, infos, ret>>

\* main, lines 484-502: --check-config prints the resolved configuration and returns 0.
Main_CheckConfig ==
    /\ pc = "check_config"
    /\ \E t \in BOOLEAN :
         /\ args' = args @@ ("check_config" :> t)
         /\ IF t
            THEN out' = Append(out, "OK") /\ Exit(0)
            ELSE pc' = "probe_or_send" /\ UNCHANGED <<out, exit_code>>
    /\ UNCHANGED <<cfg, ctx, connVars, open_socks, is_ssl, session, cleanup_raised, login_password, exc,
                   failed_at, trace, handshakes, net_io, printed_ips, infos, err, ret>>

\* main, lines 504-510: --probe hands over to _probe_smtp_connection.
Main_Probe ==
    /\ pc = "probe_or_send"
    /\ pc' = IF args.probe THEN "probe_resolve" ELSE "build_message"
    /\ UNCHANGED <<args, cfg, ctx, connVars, open_socks, is_ssl, session, cleanup_raised, login_password, exc,
                   failed_at, trace, handshakes, net_io, ioVars, ret, exit_code>>

\* main, lines 512-535: --subject and a body are required; --dry-run prints the
\* message and returns 0; otherwise the send path starts.
Main_BuildMessage ==
    /\ pc = "build_message"
    /\ \E subject \in {NoneV, "s"}, body \in BOOLEAN, dry \in BOOLEAN :
         /\ args' = args @@ [subject |-> subject, body |-> body, dry_run |-> dry]
         /\ IF ~Truthy(subject)
            THEN ParserError("--subject is required") /\ UNCHANGED out
            ELSE IF ~body
            THEN ParserError("Body is required") /\ UNCHANGED out
            ELSE IF dry
            THEN out' = Append(out, "message") /\ Exit(0) /\ UNCHANGED err
            ELSE pc' = "connect" /\ UNCHANGED <<out, err, exit_code>>
    /\ UNCHANGED <<cfg, ctx, connVars, open_socks, is_ssl, session, cleanup_raised, login_password, exc,
                   failed_at, trace, handshakes, net_io, printed_ips, infos, ret>>

----------------------------------------------------------------------------
(* The environment: name resolution, sockets, exceptions *)

\* (family, address) pairs name resolution can return for the host.
Addrs == {<<"AF_INET", "192.0.2.1">>, <<"AF_INET", "192.0.2.2">>, <<"AF_INET6", "2001:db8::1">>}

SeqsUpTo(S, n) == UNION {[1..k -> S] : k \in 1..n}

\* The answer for a host with many A records: eleven distinct addresses, the first
\* of them listed twice.
ManyRecords ==
    <<<<"AF_INET", "198.51.100.1">>, <<"AF_INET", "198.51.100.1">>,
      <<"AF_INET", "198.51.100.2">>, <<"AF_INET", "198.51.100.3">>,
      <<"AF_INET", "198.51.100.4">>, <<"AF_INET", "198.51.100.5">>,
      <<"AF_INET", "198.51.100.6">>, <<"AF_INET", "198.51.100.7">>,
      <<"AF_INET", "198.51.100.8">>, <<"AF_INET", "198.51.100.9">>,
      <<"AF_INET", "198.51.100.10">>, <<"AF_INET", "198.51.100.11">>>>

\* socket.getaddrinfo(host, port, family=family): the lists it can return (it raises
\* socket.gaierror rather than return an empty list).
GetAddrInfo(family) ==
    SeqsUpTo({a \in Addrs : family = "AF_UNSPEC" \/ a[1] = family}, MaxAddrInfos)
      \cup (IF family \in {"AF_UNSPEC", "AF_INET"} THEN {ManyRecords} ELSE {})

ConnectErrors == {"ConnectionRefusedError", "TimeoutError"}
HandshakeErrors == {"SSLError", "TimeoutError"}
BannerErrors == {"SMTPConnectError"}
EhloErrors == {"SMTPServerDisconnected"}
StarttlsRefusals == {"SMTPNotSupportedError"}
LoginErrors == {"SMTPAuthenticationError"}
SendErrors == {"SMTPRecipientsRefused"}

\* isinstance(e, ssl.SSLError)
IsSSLError(e) == e = "SSLError"

\* isinstance(e, (OSError, smtplib.SMTPException))
IsOSErrorOrSMTPException(e) ==
    e \in {"OSError", "gaierror", "ConnectionRefusedError", "TimeoutError", "SSLError",
           "SMTPConnectError", "SMTPServerDisconnected", "SMTPNotSupportedError",
           "SMTPAuthenticationError", "SMTPRecipientsRefused"}

\* An exception e starts propagating from the given phase.
Raise(e, phase) == exc' = e /\ failed_at' = [phase |-> phase, exc |-> e]

----------------------------------------------------------------------------
(* _probe_smtp_connection, lines 315-334: resolve and print the addresses *)

\* lines 321-328: drop repeated (family, ip) keys, keeping the first of each
RECURSIVE unique_ips(_, _)
unique_ips(addrs, seen) ==
    IF addrs = <<>> THEN <<>>
    ELSE IF Head(addrs) \in seen THEN unique_ips(Tail(addrs), seen)
    ELSE <<Head(addrs)>> \o unique_ips(Tail(addrs), seen \cup {Head(addrs)})

\* line 331: unique_ips[:10]
ResolvedIpsCap == 10

\* unique_ips[:10] without the slice
FirstN_all(s, n) == s

FirstN(s, n) == SubSeq(s, 1, IF Len(s) < n THEN Len(s) ELSE n)

\* Probe_ResolvePrint without the except clause of lines 333-334: what getaddrinfo
\* raises leaves _probe_smtp_connection
Probe_ResolvePrint_raising ==
    /\ pc = "probe_resolve"
    /\ net_io' = TRUE
    /\ \/ \E answer \in GetAddrInfo("AF_UNSPEC") :
            LET u == FirstN(unique_ips(answer, {}), ResolvedIpsCap) IN
            /\ infos' = answer
            /\ out' = Append(out, "resolved_ips")
            /\ printed_ips' = [i \in 1..Len(u) |-> u[i][2]]
            /\ pc' = "connect"
            /\ UNCHANGED <<exc, failed_at>>
       \/ /\ Raise("gaierror", "resolve")
          /\ pc' = "connect_raised"
          /\ UNCHANGED <<out, printed_ips, infos>>
    /\ UNCHANGED <<args, cfg, ctx, connVars, open_socks, is_ssl, session, cleanup_raised,
                   login_password, trace, handshakes, err, ret, exit_code>>

Probe_ResolvePrint ==
    /\ pc = "probe_resolve"
    /\ net_io' = TRUE
    /\ \/ \E answer \in GetAddrInfo("AF_UNSPEC") :
            LET u == FirstN(unique_ips(answer, {}), ResolvedIpsCap) IN
            /\ infos' = answer
            /\ out' = Append(out, "resolved_ips")
            /\ printed_ips' = [i \in 1..Len(u) |-> u[i][2]]
       \/ UNCHANGED <<out, printed_ips, infos>>     \* getaddrinfo raised: except Exception: pass
    /\ pc' = "connect"
    /\ UNCHANGED <<args, cfg, ctx, connVars, open_socks, is_ssl, session, cleanup_raised, login_password,
                   exc, failed_at, trace, handshakes, err, ret, exit_code>>

----------------------------------------------------------------------------
(* _connect_smtp, _create_connection_socket, _SMTP / _SMTP_SSL *)

\* _connect_smtp, lines 61-66: for tls_mode ssl build the context; the constructor of
\* the SMTP object then connects.
Connect_Start ==
    /\ pc = "connect"
    /\ IF cfg.smtp_tls = "ssl"
       THEN /\ ctx' = configure_tls_versions(create_default_context,
                                             cfg.tls_min_version, cfg.tls_max_version)
            /\ is_ssl' = TRUE
       ELSE UNCHANGED <<ctx, is_ssl>>
    /\ pc' = "getaddrinfo"
    /\ printed_ips' = <<>> /\ infos' = <<>>
    /\ UNCHANGED <<args, cfg, connVars, open_socks, session, cleanup_raised, login_password, exc, failed_at,
                   trace, handshakes, net_io, out, err, ret, exit_code>>

\* Conn_GetAddrInfo that drops the OSError of getaddrinfo instead of keeping it
Conn_GetAddrInfo_unrecorded ==
    /\ pc = "getaddrinfo"
    /\ net_io' = TRUE
    /\ \/ \E answer \in GetAddrInfo(family_candidates(cfg.address_family)[1]) :
            addrinfos' = answer /\ candidates' = answer /\ UNCHANGED last_exc
       \/ addrinfos' = <<>> /\ candidates' = <<>> /\ UNCHANGED last_exc
    /\ pc' = "candidate"
    /\ UNCHANGED <<args, cfg, ctx, attempted, connect_errors, open_socks, is_ssl, session, cleanup_raised,
                   login_password, exc, failed_at, trace, handshakes, ioVars, ret, exit_code>>

\* _create_connection_socket, lines 110-116: one getaddrinfo call for the one family
\* of _family_candidates; an OSError of it is kept in last_exc.
Conn_GetAddrInfo ==
    /\ pc = "getaddrinfo"
    /\ net_io' = TRUE
    /\ \/ \E answer \in GetAddrInfo(family_candidates(cfg.address_family)[1]) :
            addrinfos' = answer /\ candidates' = answer /\ UNCHANGED last_exc
       \/ addrinfos' = <<>> /\ candidates' = <<>> /\ last_exc' = "gaierror"
    /\ pc' = "candidate"
    /\ UNCHANGED <<args, cfg, ctx, attempted, connect_errors, open_socks, is_ssl, session, cleanup_raised,
                   login_password, exc, failed_at, trace, handshakes, ioVars, ret, exit_code>>

\* line 118: socket.socket(af, socktype, proto) for the next entry; it is outside the
\* try, so an OSError of it leaves the function at once.
Conn_Socket ==
    /\ pc = "candidate"
    /\ addrinfos # <<>>
    /\ \/ /\ open_socks' = open_socks \cup {Head(addrinfos)}
          /\ pc' = "connecting"
          /\ UNCHANGED <<exc, failed_at>>
       \/ /\ Raise("OSError", "connect")
          /\ pc' = "connect_raised"
          /\ UNCHANGED open_socks
    /\ UNCHANGED <<args, cfg, ctx, connVars, is_ssl, session, cleanup_raised, login_password, trace,
                   handshakes, net_io, ioVars, ret, exit_code>>

\* Conn_Connect that goes on to the next entry after a connect that succeeded
Conn_Connect_going_on ==
    /\ pc = "connecting"
    /\ attempted' = Append(attempted, Head(addrinfos))
    /\ \/ /\ IF Len(addrinfos) > 1
             THEN pc' = "candidate" /\ addrinfos' = Tail(addrinfos)
             ELSE pc' = (IF is_ssl THEN "wrap" ELSE "banner") /\ UNCHANGED addrinfos
          /\ UNCHANGED <<last_exc, open_socks, connect_errors>>
       \/ \E e \in ConnectErrors :
            /\ connect_errors' = [first |-> IF connect_errors = NoErrors THEN e
                                            ELSE connect_errors.first,
                                  latest |-> e]
            /\ last_exc' = e
            /\ open_socks' = open_socks \ {Head(addrinfos)}
            /\ addrinfos' = Tail(addrinfos)
            /\ pc' = "candidate"
    /\ UNCHANGED <<args, cfg, ctx, candidates, is_ssl, session, cleanup_raised, login_password, exc, failed_at,
                   trace, handshakes, net_io, ioVars, ret, exit_code>>

\* Conn_Connect without the sock.close() of lines 125-128
Conn_Connect_leaving_open ==
    /\ pc = "connecting"
    /\ attempted' = Append(attempted, Head(addrinfos))
    /\ \/ /\ pc' = IF is_ssl THEN "wrap" ELSE "banner"
          /\ UNCHANGED <<addrinfos, last_exc, open_socks, connect_errors>>
       \/ \E e \in ConnectErrors :
            /\ connect_errors' = [first |-> IF connect_errors = NoErrors THEN e
                                            ELSE connect_errors.first,
                                  latest |-> e]
            /\ last_exc' = e
            /\ UNCHANGED open_socks
            /\ addrinfos' = Tail(addrinfos)
            /\ pc' = "candidate"
    /\ UNCHANGED <<args, cfg, ctx, candidates, is_ssl, session, cleanup_raised, login_password, exc, failed_at,
                   trace, handshakes, net_io, ioVars, ret, exit_code>>

\* Conn_Connect that keeps the error of the first failed connect in last_exc
Conn_Connect_keeping_first ==
    /\ pc = "connecting"
    /\ attempted' = Append(attempted, Head(addrinfos))
    /\ \/ /\ pc' = IF is_ssl THEN "wrap" ELSE "banner"
          /\ UNCHANGED <<addrinfos, last_exc, open_socks, connect_errors>>
       \/ \E e \in ConnectErrors :
            /\ connect_errors' = [first |-> IF connect_errors = NoErrors THEN e
                                            ELSE connect_errors.first,
                                  latest |-> e]
            /\ last_exc' = IF last_exc = NoneV THEN e ELSE last_exc
            /\ open_socks' = open_socks \ {Head(addrinfos)}
            /\ addrinfos' = Tail(addrinfos)
            /\ pc' = "candidate"
    /\ UNCHANGED <<args, cfg, ctx, candidates, is_ssl, session, cleanup_raised, login_password, exc, failed_at,
                   trace, handshakes, net_io, ioVars, ret, exit_code>>

\* lines 119-129: connect; on OSError keep it in last_exc, close the socket, go on.
Conn_Connect ==
    /\ pc = "connecting"
    /\ attempted' = Append(attempted, Head(addrinfos))
    /\ \/ /\ pc' = IF is_ssl THEN "wrap" ELSE "banner"
          /\ UNCHANGED <<addrinfos, last_exc, open_socks, connect_errors>>
       \/ \E e \in ConnectErrors :
            /\ connect_errors' = [first |-> IF connect_errors = NoErrors THEN e
                                            ELSE connect_errors.first,
                                  latest |-> e]
            /\ last_exc' = e
            /\ open_socks' = open_socks \ {Head(addrinfos)}
            /\ addrinfos' = Tail(addrinfos)
            /\ pc' = "candidate"
    /\ UNCHANGED <<args, cfg, ctx, candidates, is_ssl, session, cleanup_raised, login_password, exc, failed_at,
                   trace, handshakes, net_io, ioVars, ret, exit_code>>

\* lines 130-132: every entry failed, or resolution failed.
Conn_Exhausted ==
    /\ pc = "candidate"
    /\ addrinfos = <<>>
    /\ Raise(IF last_exc # NoneV THEN last_exc ELSE "OSError", "connect")
    /\ pc' = "connect_raised"
    /\ UNCHANGED <<args, cfg, ctx, connVars, open_socks, is_ssl, session, cleanup_raised, login_password,
                   trace, handshakes, net_io, ioVars, ret, exit_code>>

\* SSL_Wrap where a failed handshake leaves the connected socket open
SSL_Wrap_leaving_raw_open ==
    /\ pc = "wrap"
    /\ \/ /\ handshakes' = Append(handshakes, [at |-> "wrap", context |-> ctx, ok |-> TRUE])
          /\ pc' = "banner"
          /\ UNCHANGED <<exc, failed_at>>
       \/ \E e \in HandshakeErrors :
            /\ handshakes' = Append(handshakes, [at |-> "wrap", context |-> ctx, ok |-> FALSE])
            /\ Raise(e, "tls_wrap")
            /\ pc' = "connect_raised"
    /\ addrinfos' = <<>> /\ attempted' = <<>> /\ last_exc' = NoneV
    /\ connect_errors' = NoErrors /\ candidates' = <<>>
    /\ UNCHANGED <<args, cfg, ctx, open_socks, is_ssl, session, cleanup_raised, login_password,
                   trace, net_io, ioVars, ret, exit_code>>

\* _SMTP_SSL._get_socket, line 151: the TLS handshake over the connected socket,
\* under the context of _connect_smtp. wrap_socket takes the descriptor over from the
\* raw socket and closes it itself when the handshake fails.
SSL_Wrap ==
    /\ pc = "wrap"
    /\ \/ /\ handshakes' = Append(handshakes, [at |-> "wrap", context |-> ctx, ok |-> TRUE])
          /\ pc' = "banner"
          /\ UNCHANGED <<exc, failed_at, open_socks>>
       \/ \E e \in HandshakeErrors :
            /\ handshakes' = Append(handshakes, [at |-> "wrap", context |-> ctx, ok |-> FALSE])
            /\ Raise(e, "tls_wrap")
            /\ open_socks' = {}
            /\ pc' = "connect_raised"
    /\ addrinfos' = <<>> /\ attempted' = <<>> /\ last_exc' = NoneV
    /\ connect_errors' = NoErrors /\ candidates' = <<>>
    /\ UNCHANGED <<args, cfg, ctx, is_ssl, session, cleanup_raised, login_password, trace,
                   net_io, ioVars, ret, exit_code>>

\* SMTP_Banner that hands every connected session, the probe's too, to the send path
SMTP_Banner_to_send ==
    /\ pc = "banner"
    /\ open_socks' = {}
    /\ \/ /\ session' = "open"
          /\ pc' = "send_ehlo"
          /\ UNCHANGED <<exc, failed_at>>
       \/ \E e \in BannerErrors :
            /\ session' = "closed"
            /\ Raise(e, "banner")
            /\ pc' = "connect_raised"
    /\ addrinfos' = <<>> /\ attempted' = <<>> /\ last_exc' = NoneV
    /\ connect_errors' = NoErrors /\ candidates' = <<>>
    /\ UNCHANGED <<args, cfg, ctx, is_ssl, cleanup_raised, login_password, trace, handshakes,
                   net_io, ioVars, ret, exit_code>>

\* smtplib.SMTP.__init__ -> connect: the socket becomes smtp.sock and the server's
\* banner is read; a banner other than 220 closes the socket and raises.
SMTP_Banner ==
    /\ pc = "banner"
    /\ open_socks' = {}
    /\ \/ /\ session' = "open"
          /\ pc' = IF args.probe THEN "probe_ehlo" ELSE "send_ehlo"
          /\ UNCHANGED <<exc, failed_at>>
       \/ \E e \in BannerErrors :
            /\ session' = "closed"
            /\ Raise(e, "banner")
            /\ pc' = "connect_raised"
    /\ addrinfos' = <<>> /\ attempted' = <<>> /\ last_exc' = NoneV
    /\ connect_errors' = NoErrors /\ candidates' = <<>>
    /\ UNCHANGED <<args, cfg, ctx, is_ssl, cleanup_raised, login_password, trace, handshakes,
                   net_io, ioVars, ret, exit_code>>

\* An exception leaves main: the interpreter prints the traceback, exit status 1.
Uncaught == err' = Append(err, "Traceback") /\ Exit(1)

\* _probe_smtp_connection, line 336: _connect_smtp is called outside the try; what it
\* raises leaves _probe_smtp_connection and main (lines 504-510, 582).
Probe_ConnectRaised ==
    /\ pc = "connect_raised"
    /\ args.probe
    /\ Uncaught
    /\ addrinfos' = <<>> /\ attempted' = <<>> /\ last_exc' = NoneV
    /\ connect_errors' = NoErrors /\ candidates' = <<>>
    /\ UNCHANGED <<args, cfg, ctx, open_socks, is_ssl, session, cleanup_raised, login_password, exc,
                   failed_at, trace, handshakes, net_io, out, printed_ips, infos, ret>>

\* main, lines 547-554: the send path catches what _connect_smtp raises.
Main_ConnectExcept ==
    /\ pc = "connect_raised"
    /\ ~args.probe
    /\ IF IsSSLError(exc)
       THEN err' = err \o <<"send=failed ssl_error", "hints">>
       ELSE err' = err \o <<"send=failed error", "hints">>
    /\ exc' = NoneV
    /\ Exit(2)
    /\ addrinfos' = <<>> /\ attempted' = <<>> /\ last_exc' = NoneV
    /\ connect_errors' = NoErrors /\ candidates' = <<>>
    /\ UNCHANGED <<args, cfg, ctx, open_socks, is_ssl, session, cleanup_raised, login_password, failed_at,
                   trace, handshakes, net_io, out, printed_ips, infos, ret>>


----------------------------------------------------------------------------
(* _probe_smtp_connection, lines 345-372: the session of the probe *)

\* needs_starttls that looks at is_ssl alone, not at tls_mode
needs_starttls_unless_ssl == ~is_ssl

\* line 349 / line 559
needs_starttls == ~is_ssl /\ cfg.smtp_tls = "starttls"

\* probe_wants_login without the auth flag of line 353
probe_wants_login_unasked == Truthy(cfg.smtp_username)

\* line 353: the probe authenticates when asked to and a username is configured
probe_wants_login == args.probe_auth /\ Truthy(cfg.smtp_username)

\* send_wants_login that leaves authentication out on the unencrypted channel
send_wants_login_secure_only == Truthy(cfg.smtp_username) /\ cfg.smtp_tls # "none"

\* line 565: the send path authenticates when a username is configured
send_wants_login == Truthy(cfg.smtp_username)

\* cfg.smtp_password or ""
password_or_empty(password) == IF Truthy(password) THEN password ELSE ""

\* the context the probe hands to smtp.starttls (lines 350-351)
probe_starttls_context == create_default_context

\* the context the send path hands to smtp.starttls (lines 560-562)
send_starttls_context ==
    configure_tls_versions(create_default_context, cfg.tls_min_version, cfg.tls_max_version)

\* smtp.ehlo(): issued, then it returns or raises.
Ehlo(phase, next, except) ==
    /\ trace' = Append(trace, "ehlo")
    /\ \/ pc' = next /\ UNCHANGED <<exc, failed_at>>
       \/ \E e \in EhloErrors : Raise(e, phase) /\ pc' = except

\* smtp.starttls(context=c): the server refuses the command, or the handshake is
\* performed under c and succeeds or fails.
Starttls(c, next, except) ==
    /\ trace' = Append(trace, "starttls")
    /\ \/ /\ handshakes' = Append(handshakes, [at |-> "starttls", context |-> c, ok |-> TRUE])
          /\ pc' = next
          /\ UNCHANGED <<exc, failed_at>>
       \/ \E e \in HandshakeErrors :
            /\ handshakes' = Append(handshakes, [at |-> "starttls", context |-> c, ok |-> FALSE])
            /\ Raise(e, "starttls")
            /\ pc' = except
       \/ \E e \in StarttlsRefusals :
            /\ Raise(e, "starttls_command")
            /\ pc' = except
            /\ UNCHANGED handshakes

\* smtp.login(user, password)
Login(password, next, except) ==
    /\ trace' = Append(trace, "login")
    /\ login_password' = password
    /\ \/ pc' = next /\ UNCHANGED <<exc, failed_at>>
       \/ \E e \in LoginErrors : Raise(e, "login") /\ pc' = except

\* finally: smtp.quit(); it closes the socket when it returns.
Quit(next, fallback) ==
    /\ trace' = Append(trace, "quit")
    /\ \/ session' = "closed" /\ pc' = next /\ UNCHANGED cleanup_raised
       \/ pc' = fallback /\ cleanup_raised' = cleanup_raised \cup {"quit"} /\ UNCHANGED session

\* except Exception: smtp.close(), whose own exception is passed over. smtplib's close
\* sets smtp.sock to None and closes the socket in a finally clause, and the descriptor
\* is released also when closing it reports an error.
Close(next) ==
    /\ trace' = Append(trace, "close")
    /\ pc' = next
    /\ session' = "closed"
    /\ \/ UNCHANGED cleanup_raised
       \/ cleanup_raised' = cleanup_raised \cup {"close"}

Probe_Ehlo ==
    /\ pc = "probe_ehlo"
    /\ Ehlo("greeting", IF needs_starttls THEN "probe_starttls" ELSE "probe_login",
            "probe_except")
    /\ UNCHANGED <<args, cfg, ctx, connVars, open_socks, is_ssl, session, cleanup_raised, login_password,
                   handshakes, net_io, ioVars, ret, exit_code>>

\* Probe_Starttls with a failed upgrade passed over: the probe goes on to the greeting
Probe_Starttls_passing_failure ==
    /\ pc = "probe_starttls"
    /\ Starttls(probe_starttls_context, "probe_ehlo2", "probe_ehlo2")
    /\ UNCHANGED <<args, cfg, ctx, connVars, open_socks, is_ssl, session, cleanup_raised, login_password,
                   net_io, ioVars, ret, exit_code>>

Probe_Starttls ==
    /\ pc = "probe_starttls"
    /\ Starttls(probe_starttls_context, "probe_ehlo2", "probe_except")
    /\ UNCHANGED <<args, cfg, ctx, connVars, open_socks, is_ssl, session, cleanup_raised, login_password,
                   net_io, ioVars, ret, exit_code>>

Probe_Ehlo2 ==
    /\ pc = "probe_ehlo2"
    /\ Ehlo("greeting2", "probe_login", "probe_except")
    /\ UNCHANGED <<args, cfg, ctx, connVars, open_socks, is_ssl, session, cleanup_raised, login_password,
                   handshakes, net_io, ioVars, ret, exit_code>>

\* Probe_Login with a failed login passed over: the probe goes on to the success line
Probe_Login_passing_failure ==
    /\ pc = "probe_login"
    /\ IF probe_wants_login
       THEN Login(password_or_empty(cfg.smtp_password), "probe_ok", "probe_ok")
       ELSE pc' = "probe_ok" /\ UNCHANGED <<trace, login_password, exc, failed_at>>
    /\ UNCHANGED <<args, cfg, ctx, connVars, open_socks, is_ssl, session, cleanup_raised, handshakes,
                   net_io, ioVars, ret, exit_code>>

\* lines 353-354
Probe_Login ==
    /\ pc = "probe_login"
    /\ IF probe_wants_login
       THEN Login(password_or_empty(cfg.smtp_password), "probe_ok", "probe_except")
       ELSE pc' = "probe_ok" /\ UNCHANGED <<trace, login_password, exc, failed_at>>
    /\ UNCHANGED <<args, cfg, ctx, connVars, open_socks, is_ssl, session, cleanup_raised, handshakes,
                   net_io, ioVars, ret, exit_code>>

\* lines 355-356
Probe_Ok ==
    /\ pc = "probe_ok"
    /\ out' = Append(out, "probe=ok")
    /\ ret' = 0
    /\ pc' = "probe_quit"
    /\ UNCHANGED <<args, cfg, ctx, connVars, open_socks, is_ssl, session, cleanup_raised, login_password,
                   exc, failed_at, trace, handshakes, net_io, printed_ips, infos, err, exit_code>>

\* lines 357-364: ssl.SSLError first, then OSError and SMTPException.
Probe_Except ==
    /\ pc = "probe_except"
    /\ IF IsSSLError(exc)
       THEN /\ err' = err \o <<"probe=failed ssl_error", "hints">>
            /\ ret' = 2 /\ exc' = NoneV
       ELSE IF IsOSErrorOrSMTPException(exc)
       THEN /\ err' = err \o <<"probe=failed error", "hints">>
            /\ ret' = 2 /\ exc' = NoneV
       ELSE UNCHANGED <<err, ret, exc>>
    /\ pc' = "probe_quit"
    /\ UNCHANGED <<args, cfg, ctx, connVars, open_socks, is_ssl, session, cleanup_raised, login_password,
                   failed_at, trace, handshakes, net_io, out, printed_ips, infos, exit_code>>

\* lines 365-368
Probe_Quit ==
    /\ pc = "probe_quit"
    /\ Quit("probe_return", "probe_close")
    /\ UNCHANGED <<args, cfg, ctx, connVars, open_socks, is_ssl, login_password, exc,
                   failed_at, handshakes, net_io, ioVars, ret, exit_code>>

\* Probe_Close without the inner except of lines 371-372: what close raises propagates
Probe_Close_surfacing ==
    /\ pc = "probe_close"
    /\ trace' = Append(trace, "close")
    /\ pc' = "probe_return"
    /\ session' = "closed"
    /\ \/ UNCHANGED <<cleanup_raised, exc>>
       \/ cleanup_raised' = cleanup_raised \cup {"close"} /\ exc' = "SMTPServerDisconnected"
    /\ UNCHANGED <<args, cfg, ctx, connVars, open_socks, is_ssl, login_password,
                   failed_at, handshakes, net_io, ioVars, ret, exit_code>>

\* lines 369-372
Probe_Close ==
    /\ pc = "probe_close"
    /\ Close("probe_return")
    /\ UNCHANGED <<args, cfg, ctx, connVars, open_socks, is_ssl, login_password, exc,
                   failed_at, handshakes, net_io, ioVars, ret, exit_code>>

\* main, lines 504-510 and 582: the probe's return value is the exit status; an
\* exception no except clause took leaves main.
Probe_Return ==
    /\ pc = "probe_return"
    /\ IF exc # NoneV THEN Uncaught ELSE Exit(ret) /\ UNCHANGED err
    /\ UNCHANGED <<args, cfg, ctx, connVars, open_socks, is_ssl, session, cleanup_raised, login_password,
                   exc, failed_at, trace, handshakes, net_io, out, printed_ips, infos, ret>>

----------------------------------------------------------------------------
(* main, lines 555-578: the session of the send path *)

Main_Ehlo ==
    /\ pc = "send_ehlo"
    /\ Ehlo("greeting", IF needs_starttls THEN "send_starttls" ELSE "send_login",
            "send_quit")
    /\ UNCHANGED <<args, cfg, ctx, connVars, open_socks, is_ssl, session, cleanup_raised, login_password,
                   handshakes, net_io, ioVars, ret, exit_code>>

Main_Starttls ==
    /\ pc = "send_starttls"
    /\ Starttls(send_starttls_context, "send_ehlo2", "send_quit")
    /\ UNCHANGED <<args, cfg, ctx, connVars, open_socks, is_ssl, session, cleanup_raised, login_password,
                   net_io, ioVars, ret, exit_code>>

\* Main_Ehlo2 without line 563: no greeting after the upgrade
Main_Ehlo2_no_greeting ==
    /\ pc = "send_ehlo2"
    /\ pc' = "send_login"
    /\ UNCHANGED <<args, cfg, ctx, connVars, open_socks, is_ssl, session, cleanup_raised, login_password,
                   exc, failed_at, trace, handshakes, net_io, ioVars, ret, exit_code>>

Main_Ehlo2 ==
    /\ pc = "send_ehlo2"
    /\ Ehlo("greeting2", "send_login", "send_quit")
    /\ UNCHANGED <<args, cfg, ctx, connVars, open_socks, is_ssl, session, cleanup_raised, login_password,
                   handshakes, net_io, ioVars, ret, exit_code>>

\* lines 565-566
Main_Login ==
    /\ pc = "send_login"
    /\ IF send_wants_login
       THEN Login(password_or_empty(cfg.smtp_password), "send_message", "send_quit")
       ELSE pc' = "send_message" /\ UNCHANGED <<trace, login_password, exc, failed_at>>
    /\ UNCHANGED <<args, cfg, ctx, connVars, open_socks, is_ssl, session, cleanup_raised, handshakes,
                   net_io, ioVars, ret, exit_code>>

\* line 568
Main_SendMessage ==
    /\ pc = "send_message"
    /\ trace' = Append(trace, "send_message")
    /\ \/ UNCHANGED <<exc, failed_at>>
       \/ \E e \in SendErrors : Raise(e, "send_message")
    /\ pc' = "send_quit"
    /\ UNCHANGED <<args, cfg, ctx, connVars, open_socks, is_ssl, session, cleanup_raised, login_password,
                   handshakes, net_io, ioVars, ret, exit_code>>

\* Main_Quit without the fallback of lines 572-576: a quit that raised is passed over
Main_Quit_without_fallback ==
    /\ pc = "send_quit"
    /\ Quit("send_return", "send_return")
    /\ UNCHANGED <<args, cfg, ctx, connVars, open_socks, is_ssl, login_password, exc,
                   failed_at, handshakes, net_io, ioVars, ret, exit_code>>

\* lines 569-571
Main_Quit ==
    /\ pc = "send_quit"
    /\ Quit("send_return", "send_close")
    /\ UNCHANGED <<args, cfg, ctx, connVars, open_socks, is_ssl, login_password, exc,
                   failed_at, handshakes, net_io, ioVars, ret, exit_code>>

\* lines 572-576
Main_Close ==
    /\ pc = "send_close"
    /\ Close("send_return")
    /\ UNCHANGED <<args, cfg, ctx, connVars, open_socks, is_ssl, login_password, exc,
                   failed_at, handshakes, net_io, ioVars, ret, exit_code>>

\* line 578 returns 0; the try of lines 555-576 has no except clause, so an exception
\* of the session leaves main after the finally (line 582).
Main_Return ==
    /\ pc = "send_return"
    /\ IF exc # NoneV THEN Uncaught ELSE Exit(0) /\ UNCHANGED err
    /\ UNCHANGED <<args, cfg, ctx, connVars, open_socks, is_ssl, session, cleanup_raised, login_password,
                   exc, failed_at, trace, handshakes, net_io, out, printed_ips, infos, ret>>


Next ==
    \/ Main_ParseArgs
    \/ Main_ResolveConfig
    \/ Main_CheckConfig
    \/ Main_Probe
    \/ Main_BuildMessage
    \/ Probe_ResolvePrint
    \/ Connect_Start
    \/ Conn_GetAddrInfo
    \/ Conn_Socket
    \/ Conn_Connect
    \/ Conn_Exhausted
    \/ SSL_Wrap
    \/ SMTP_Banner
    \/ Probe_ConnectRaised
    \/ Main_ConnectExcept
    \/ Probe_Ehlo
    \/ Probe_Starttls
    \/ Probe_Ehlo2
    \/ Probe_Login
    \/ Probe_Ok
    \/ Probe_Except
    \/ Probe_Quit
    \/ Probe_Close
    \/ Probe_Return
    \/ Main_Ehlo
    \/ Main_Starttls
    \/ Main_Ehlo2
    \/ Main_Login
    \/ Main_SendMessage
    \/ Main_Quit
    \/ Main_Close
    \/ Main_Return

Spec == Init /\ [][Next]_vars

----------------------------------------------------------------------------
(* Properties *)

Range(q) == {q[i] : i \in 1..Len(q)}

Done == pc = "done"

\* _resolve_config has read the namespace
Resolved == "smtp_host" \in DOMAIN args

PasswordRequired == "--smtp-password is required when --smtp-username is set"

TlsRangeMessage == "--tls-min-version must be <= --tls-max-version"

\* the order 1.0 < 1.1 < 1.2 < 1.3 of the protocol versions
VersionOrder == <<"1.0", "1.1", "1.2", "1.3">>

Rank(v) == CHOOSE i \in 1..Len(VersionOrder) : VersionOrder[i] = v

ParsedMin == parse_tls_version(args.tls_min_version)

ParsedMax == parse_tls_version(args.tls_max_version)

MinAboveMax ==
    /\ ParsedMin \in Range(VersionOrder)
    /\ ParsedMax \in Range(VersionOrder)
    /\ Rank(ParsedMin) > Rank(ParsedMax)

\* the version range the configuration asks of a TLS context
ConfiguredRange ==
    [minimum_version |-> IF cfg.tls_min_version # NoneV
                         THEN tls_version_obj(cfg.tls_min_version)
                         ELSE create_default_context.minimum_version,
     maximum_version |-> IF cfg.tls_max_version # NoneV
                         THEN tls_version_obj(cfg.tls_max_version)
                         ELSE create_default_context.maximum_version]

\* C1: in probe mode, a TLS handshake (implicit wrap or STARTTLS upgrade) that the peer
\* fails is reported with the ssl_error line, not the generic error line, and the
\* probe exits with status 2.
C1_ProbeTlsFailureClassified ==
    (Done /\ Resolved /\ args.probe
       /\ failed_at.phase \in {"tls_wrap", "starttls"} /\ failed_at.exc = "SSLError")
    => /\ exit_code = 2
       /\ "probe=failed ssl_error" \in Range(err)
       /\ "probe=failed error" \notin Range(err)

\* C2: on the send path a failure raised in any phase (connect, greeting, upgrade,
\* second greeting, authentication, send) ends main with status 2, and status 0 means
\* every phase succeeded.
C2_SendFailureExitsTwo ==
    (Done /\ Resolved /\ ~args.probe /\ net_io)
    => /\ failed_at # NoFailure => exit_code = 2
       /\ exit_code = 0 => failed_at = NoFailure /\ "send_message" \in Range(trace)

\* C3: in probe mode a failure of the connect step (resolution, every candidate
\* failing, banner rejected) is reported as a probe=failed line followed by the hints,
\* and the probe exits with status 2.
C3_ProbeConnectFailureReported ==
    (Done /\ Resolved /\ args.probe /\ failed_at.phase \in {"connect", "banner"})
    => /\ exit_code = 2
       /\ \E i \in 1..Len(err) - 1 :
            /\ err[i] \in {"probe=failed ssl_error", "probe=failed error"}
            /\ err[i + 1] = "hints"

\* C4: with tls_mode starttls, on the probe and on the send path, the upgrade is issued
\* right after the first greeting, and authentication or a send is issued only after
\* greeting, successful upgrade and a second greeting that has completed.
C4_StarttlsOrder ==
    (cfg # NoCfg /\ cfg.smtp_tls = "starttls")
    => \A i \in 1..Len(trace) :
         /\ trace[i] = "starttls" => i = 2 /\ trace[1] = "ehlo"
         /\ trace[i] \in {"login", "send_message"}
              => /\ i > 3
                 /\ SubSeq(trace, 1, 3) = <<"ehlo", "starttls", "ehlo">>
                 /\ \E h \in Range(handshakes) : h.at = "starttls" /\ h.ok
                 /\ failed_at.phase \notin {"greeting", "starttls", "starttls_command",
                                            "greeting2"}

C4_Witness ==
    /\ cfg # NoCfg
    /\ cfg.smtp_tls = "starttls"
    /\ trace = <<"ehlo", "starttls", "ehlo", "login", "send_message">>

\* C5: once the STARTTLS upgrade handshake has failed, no authentication and no send
\* is issued, and the invocation ends with the session shut down: quit, then close
\* when quit raised.
C5_FailedUpgradeClosesSession ==
    failed_at.phase = "starttls"
    => /\ "login" \notin Range(trace)
       /\ "send_message" \notin Range(trace)
       /\ login_password = NoLogin
       /\ Done => \/ trace = <<"ehlo", "starttls", "quit">> /\ session = "closed"
                  \/ trace = <<"ehlo", "starttls", "quit", "close">>

C5_Witness ==
    /\ Done
    /\ failed_at.phase = "starttls"
    /\ args.probe
    /\ args.probe_auth
    /\ Truthy(cfg.smtp_username)
    /\ trace = <<"ehlo", "starttls", "quit", "close">>

\* C6: every TLS handshake (implicit wrap and STARTTLS upgrade, probe and send path)
\* runs under a context whose minimum and maximum version are the configured ones
\* where set and the platform default where not.
C6_HandshakesUseConfiguredRange ==
    \A h \in Range(handshakes) : h.context = ConfiguredRange

\* C7: a configuration with both versions set and min above max is rejected by
\* configuration resolution, before any name resolution or other network I/O, and no
\* pair with min not above max is rejected for its order.
C7_TlsRangeChecked ==
    /\ cfg = NoCfg => ~net_io
    /\ Resolved =>
         /\ MinAboveMax => cfg = NoCfg /\ Done /\ exit_code = 2 /\ ~net_io
         /\ TlsRangeMessage \in Range(err) => MinAboveMax

C7_Witness ==
    /\ Done
    /\ Resolved
    /\ ParsedMin = "1.3"
    /\ ParsedMax = "1.2"
    /\ err = <<TlsRangeMessage>>
    /\ exit_code = 2

\* C8: in probe mode with --probe-auth, a username and no password, the invocation is
\* not rejected as a configuration error (the probe goes on to attempt authentication
\* with an empty password).
C8_ProbeAuthWithoutPasswordAccepted ==
    (Resolved /\ args.probe /\ args.probe_auth
       /\ Truthy(args.smtp_username) /\ args.smtp_password = NoneV)
    => /\ PasswordRequired \notin Range(err)
       /\ "login" \in Range(trace) => login_password = ""

\* C9: on the send path a username without a password is rejected by configuration
\* resolution before any network I/O, and a login is issued only with a password that
\* was configured.
C9_SendRejectsMissingPassword ==
    (Resolved /\ ~args.probe)
    => /\ (Truthy(args.smtp_username) /\ args.smtp_password = NoneV)
            => cfg = NoCfg /\ Done /\ exit_code = 2 /\ ~net_io /\ login_password = NoLogin
       /\ "login" \in Range(trace)
            => cfg.smtp_password # NoneV /\ login_password = cfg.smtp_password

C9_Witness ==
    /\ Done
    /\ Resolved
    /\ ~args.probe
    /\ args.smtp_username = "u"
    /\ args.smtp_password = NoneV
    /\ err = <<PasswordRequired>>
    /\ exit_code = 2

\* C10: the probe issues a login only when --probe-auth was given and a username is
\* configured; with a username but without --probe-auth it never issues one.
C10_ProbeAuthOnlyOnRequest ==
    (Resolved /\ args.probe /\ "login" \in Range(trace))
    => args.probe_auth /\ Truthy(cfg.smtp_username)

C10_Witness ==
    /\ Done
    /\ Resolved
    /\ args.probe
    /\ ~args.probe_auth
    /\ cfg # NoCfg
    /\ Truthy(cfg.smtp_username)
    /\ "probe=ok" \in Range(out)
    /\ "login" \notin Range(trace)
    /\ exit_code = 0

\* op a was issued on the session before op b
Before(a, b) == \E i, j \in DOMAIN trace : i < j /\ trace[i] = a /\ trace[j] = b

\* C11: on the send path a login is issued only when a username is configured, and,
\* in every tls_mode, the message is sent only with no earlier failure and, when a
\* username is configured, after the login.
C11_SendAuthWhenUsername ==
    (cfg # NoCfg /\ ~args.probe)
    => /\ "login" \in Range(trace) => Truthy(cfg.smtp_username)
       /\ (pc = "send_message" \/ "send_message" \in Range(trace))
            => /\ Truthy(cfg.smtp_username) => "login" \in Range(trace)
               /\ "send_message" \in Range(trace)
                    => /\ failed_at.phase \in {NoneV, "send_message"}
                       /\ Truthy(cfg.smtp_username) => Before("login", "send_message")

C11_Witness ==
    /\ Done
    /\ cfg # NoCfg
    /\ ~args.probe
    /\ cfg.smtp_tls = "none"
    /\ cfg.smtp_username = "u"
    /\ handshakes = <<>>
    /\ Before("login", "send_message")
    /\ exit_code = 0

\* C12: in ssl mode the only handshake is the one wrapping the connection, completed
\* before the banner and any command; in starttls mode the only handshake is the
\* upgrade, issued right after the first greeting; in none mode there is no handshake;
\* the STARTTLS command is issued in starttls mode only.
C12_TlsPlacedByMode ==
    cfg # NoCfg
    => /\ cfg.smtp_tls = "ssl"
            => /\ \A i \in DOMAIN handshakes : handshakes[i].at = "wrap"
               /\ Len(handshakes) <= 1
               /\ (pc = "banner" \/ session # "none" \/ trace # <<>>)
                    => handshakes # <<>> /\ handshakes[1].ok
       /\ cfg.smtp_tls = "starttls"
            => /\ \A i \in DOMAIN handshakes : handshakes[i].at = "starttls"
               /\ Len(handshakes) <= 1
               /\ "starttls" \in Range(trace)
                    => Len(trace) >= 2 /\ trace[1] = "ehlo" /\ trace[2] = "starttls"
               /\ handshakes # <<>> => "starttls" \in Range(trace)
       /\ cfg.smtp_tls = "none" => handshakes = <<>>
       /\ "starttls" \in Range(trace) => cfg.smtp_tls = "starttls"

C12_Witness ==
    /\ Done
    /\ cfg # NoCfg
    /\ cfg.smtp_tls = "ssl"
    /\ Len(handshakes) = 1
    /\ handshakes[1].at = "wrap"
    /\ handshakes[1].ok
    /\ "ehlo" \in Range(trace)
    /\ "starttls" \notin Range(trace)
    /\ exit_code = 0

\* the family a configured address_family stands for
FamilyOf(address_family) == IF address_family = "ipv4" THEN "AF_INET" ELSE "AF_INET6"

\* C13: with address_family ipv4 (ipv6) every address the connect step has resolved,
\* attempted or holds a socket for is AF_INET (AF_INET6), also once all have failed.
C13_OnlyRequestedFamily ==
    (cfg # NoCfg /\ cfg.address_family \in {"ipv4", "ipv6"})
    => \A a \in Range(addrinfos) \cup Range(attempted) \cup open_socks :
         a[1] = FamilyOf(cfg.address_family)

C13_Witness ==
    /\ pc = "connect_raised"
    /\ cfg.address_family = "ipv4"
    /\ addrinfos = <<>>
    /\ Len(attempted) >= 2
    /\ \A i \in DOMAIN attempted : attempted[i][1] = "AF_INET"

\* C14: one call of the connect step attempts no (family, address) pair twice.
C14_EachPairAttemptedOnce ==
    \A i, j \in DOMAIN attempted : i # j => attempted[i] # attempted[j]

\* index of the first record of infos with address ip
FirstSeen(ip) == CHOOSE i \in DOMAIN infos : infos[i][2] = ip /\ \A k \in 1..(i - 1) : infos[k][2] # ip

\* the addresses getaddrinfo returned to the probe
ResolvedAddresses == {infos[i][2] : i \in DOMAIN infos}

\* C15: after the probe's resolve step the printed addresses are resolved ones, none
\* twice, in the order they were first returned, no resolved address left out ahead
\* of a printed one, ten of them at most and all of them when there are fewer; the
\* line is printed exactly when getaddrinfo returned addresses.
C15_PrintedAddressLine ==
    (pc = "connect" /\ args.probe)
    => /\ Range(printed_ips) \subseteq ResolvedAddresses
       /\ \A i, j \in DOMAIN printed_ips :
            i < j => FirstSeen(printed_ips[i]) < FirstSeen(printed_ips[j])
       /\ \A ip \in ResolvedAddresses \ Range(printed_ips) :
            \A i \in DOMAIN printed_ips : FirstSeen(printed_ips[i]) < FirstSeen(ip)
       /\ Len(printed_ips) <= ResolvedIpsCap
       /\ Len(printed_ips) < ResolvedIpsCap => Range(printed_ips) = ResolvedAddresses
       /\ "resolved_ips" \in Range(out) <=> infos # <<>>

C15_Witness ==
    /\ pc = "connect"
    /\ args.probe
    /\ Len(printed_ips) = ResolvedIpsCap
    /\ Cardinality(ResolvedAddresses) > ResolvedIpsCap
    /\ Len(infos) > Cardinality(ResolvedAddresses)
    /\ "resolved_ips" \in Range(out)

\* the connect step has raised after going through every candidate
AllCandidatesTried ==
    pc = "connect_raised" /\ failed_at.phase = "connect" /\ addrinfos = <<>>

\* C16: when every candidate failed to connect, the connect step raises the error of
\* the latest failed connect.
C16_LastCandidateError ==
    (AllCandidatesTried /\ attempted # <<>>) => exc = connect_errors.latest

C16_Witness ==
    /\ AllCandidatesTried
    /\ Len(attempted) >= 2
    /\ connect_errors.first = "TimeoutError"
    /\ connect_errors.latest = "ConnectionRefusedError"
    /\ exc = "ConnectionRefusedError"

\* socket.gaierror, what name resolution raises
ResolutionErrors == {"gaierror"}

\* C17: when resolution gave no candidate the connect step raises a resolution error,
\* when candidates existed and all failed a connect error, and no error is both.
C17_ResolutionErrorDistinct ==
    /\ ResolutionErrors \cap ConnectErrors = {}
    /\ AllCandidatesTried
         => /\ attempted = <<>> => exc \in ResolutionErrors
            /\ attempted # <<>> => exc \in ConnectErrors

C17_Witness ==
    /\ AllCandidatesTried
    /\ attempted = <<>>
    /\ connect_errors = NoErrors
    /\ exc = "gaierror"

\* the reports that name a TLS error
SslErrorReports == {"probe=failed ssl_error", "send=failed ssl_error"}

\* C18: a run that ended on a timeout of a TLS handshake has reported an ssl_error,
\* and a run that ended on a timeout of connect has not.
C18_TimeoutClassifiedByPhase ==
    (Done /\ failed_at.exc = "TimeoutError")
    => /\ failed_at.phase \in {"tls_wrap", "starttls"} => Range(err) \cap SslErrorReports # {}
       /\ failed_at.phase = "connect" => Range(err) \cap SslErrorReports = {}

\* C19: every configuration _resolve_config returns has a port in 1..65535.
C19_AcceptedPortInRange ==
    cfg # NoCfg => cfg.smtp_port \in 1..65535

\* C20: a run with --probe never issues the message-send operation.
C20_ProbeNeverSends ==
    (cfg # NoCfg /\ args.probe) => pc # "send_message" /\ "send_message" \notin Range(trace)

C20_Witness ==
    /\ Done
    /\ cfg # NoCfg
    /\ args.probe
    /\ args.probe_auth
    /\ "login" \in Range(trace)
    /\ "probe=ok" \in Range(out)
    /\ "send_message" \notin Range(trace)
    /\ exit_code = 0

\* how often x occurs in the sequence q
Count(q, x) == Cardinality({i \in DOMAIN q : q[i] = x})

\* the failure lines of the probe
ProbeFailedReports == {"probe=failed ssl_error", "probe=failed error"}

\* C21: the probe writes probe=ok at most once, only with no failure raised: after the
\* TLS wrap in ssl mode, after greeting, upgrade and second greeting in starttls mode,
\* and after the login when --probe-auth was given with a username; it then returns 0
\* and has written no probe=failed line.
C21_ProbeOkOnlyOnSuccess ==
    (cfg # NoCfg /\ args.probe)
    => /\ Count(out, "probe=ok") <= 1
       /\ "probe=ok" \in Range(out)
            => /\ failed_at = NoFailure
               /\ Range(err) \cap ProbeFailedReports = {}
               /\ trace # <<>> /\ trace[1] = "ehlo"
               /\ cfg.smtp_tls = "ssl" => Len(handshakes) = 1 /\ handshakes[1].ok
               /\ cfg.smtp_tls = "starttls"
                    => /\ Len(trace) >= 3
                       /\ SubSeq(trace, 1, 3) = <<"ehlo", "starttls", "ehlo">>
                       /\ Len(handshakes) = 1 /\ handshakes[1].ok
               /\ (args.probe_auth /\ Truthy(cfg.smtp_username)) => "login" \in Range(trace)
               /\ ret = 0
               /\ Done => exit_code = 0

C21_Witness ==
    /\ Done
    /\ cfg # NoCfg
    /\ args.probe
    /\ args.probe_auth
    /\ cfg.smtp_tls = "starttls"
    /\ trace = <<"ehlo", "starttls", "ehlo", "login", "quit">>
    /\ out = <<"resolved_ips", "probe=ok">>
    /\ err = <<>>
    /\ exit_code = 0

\* the phases after the probe's resolve-and-print step
PhasesAfterResolve ==
    {"connect", "tls_wrap", "banner", "greeting", "starttls_command", "starttls",
     "greeting2", "login"}

\* C22: when the probe's own getaddrinfo raised, the probe is at the connect step with
\* no exception, no report and no return value; a failure of a probe is one of the
\* connect, handshake, greeting or login phases, and a probe with no such failure
\* prints probe=ok and exits 0.
C22_ResolveFailureSwallowed ==
    (cfg # NoCfg /\ args.probe /\ net_io)
    => /\ pc = "connect"
            => /\ exc = NoneV /\ failed_at = NoFailure
               /\ err = <<>> /\ ret = Running /\ exit_code = Running
       /\ failed_at # NoFailure => failed_at.phase \in PhasesAfterResolve
       /\ (Done /\ failed_at = NoFailure) => "probe=ok" \in Range(out) /\ exit_code = 0

C22_Witness ==
    /\ Done
    /\ cfg # NoCfg
    /\ args.probe
    /\ net_io
    /\ "resolved_ips" \notin Range(out)
    /\ out = <<"probe=ok">>
    /\ exit_code = 0

\* the connect step has returned an SMTP object to the probe or the send path
SessionReturned == session # "none" /\ failed_at.phase # "banner"

\* C23: quit and close are each issued at most once; a run that got a session has
\* issued quit when it ends; close is issued exactly when quit raised; after quit
\* only close is issued and after close nothing.
C23_QuitOnceCloseOnFailure ==
    /\ Count(trace, "quit") <= 1
    /\ Count(trace, "close") <= 1
    /\ (Done /\ SessionReturned) => Count(trace, "quit") = 1
    /\ "close" \in Range(trace) => "quit" \in cleanup_raised
    /\ ("quit" \in cleanup_raised /\ pc \notin {"probe_close", "send_close"})
         => "close" \in Range(trace)
    /\ \A i, j \in DOMAIN trace :
         i < j => /\ trace[i] # "close"
                  /\ trace[i] = "quit" => trace[j] = "close"

C23_Witness ==
    /\ Done
    /\ cfg # NoCfg
    /\ ~args.probe
    /\ failed_at.phase = "login"
    /\ trace = <<"ehlo", "login", "quit", "close">>
    /\ "quit" \in cleanup_raised

\* C24: a run in which quit or close raised ends as the same run without that: with
\* no failure of the session, exit status 0 and nothing on stderr (and probe=ok for
\* the probe); with one, the report and exit status of that failure alone.
C24_CleanupErrorsSuppressed ==
    (Done /\ cleanup_raised # {})
    => /\ failed_at = NoFailure
            => /\ exit_code = 0
               /\ err = <<>>
               /\ args.probe => "probe=ok" \in Range(out)
       /\ failed_at # NoFailure
            => IF args.probe
               THEN /\ exit_code = 2
                    /\ err = <<IF failed_at.exc = "SSLError" THEN "probe=failed ssl_error"
                               ELSE "probe=failed error", "hints">>
               ELSE /\ exit_code = 1
                    /\ err = <<"Traceback">>

C24_Witness ==
    /\ Done
    /\ args.probe
    /\ cleanup_raised = {"quit", "close"}
    /\ failed_at = NoFailure
    /\ "probe=ok" \in Range(out)
    /\ exit_code = 0

\* C25: when the run ends no socket is open, neither one of the connect step nor the
\* one of the SMTP object, whatever path it took; and a socket is never held by the
\* connect step and by an SMTP object at once.
C25_ConnectedSocketsClosed ==
    /\ Done => open_socks = {} /\ session # "open"
    /\ ~(open_socks # {} /\ session = "open")

C25_Witness ==
    /\ Done
    /\ failed_at.phase = "tls_wrap"
    /\ Len(handshakes) = 1
    /\ ~handshakes[1].ok
    /\ open_socks = {}
    /\ session = "none"

\* the connect step has just connected a socket
JustConnected == pc = "wrap" \/ (pc = "banner" /\ ~is_ssl)

\* C26: the attempts made are the first entries of the list name resolution returned,
\* in its order; while the step goes through the list the only socket open is the
\* one of the entry being attempted; the step returns at the first entry that
\* connects, with that entry's socket, leaving the entries after it untouched.
C26_InOrderFirstConnected ==
    /\ Len(attempted) <= Len(candidates)
    /\ \A i \in DOMAIN attempted : attempted[i] = candidates[i]
    /\ pc \in {"candidate", "connecting"}
         => /\ attempted \o addrinfos = candidates
            /\ open_socks \subseteq (IF pc = "connecting" THEN {Head(addrinfos)} ELSE {})
    /\ JustConnected
         => /\ attempted # <<>>
            /\ open_socks = {attempted[Len(attempted)]}
            /\ attempted \o Tail(addrinfos) = candidates

C26_Witness ==
    /\ JustConnected
    /\ Len(attempted) = 2
    /\ Len(candidates) > 2
    /\ connect_errors.first # NoneV
    /\ open_socks = {candidates[2]}

\* C27: when the connect step raises, every entry of the list name resolution returned
\* has been attempted.
C27_EveryCandidateTried ==
    (pc = "connect_raised" /\ failed_at.phase = "connect")
    => addrinfos = <<>> /\ Len(attempted) = Len(candidates)

\* C28: the connect step never has two sockets open; before it takes the next entry,
\* and when it raises, it has none open.
C28_OneCandidateSocket ==
    /\ Cardinality(open_socks) <= 1
    /\ pc = "candidate" => open_socks = {}
    /\ (pc = "connect_raised" /\ failed_at.phase = "connect") => open_socks = {}

C28_Witness ==
    /\ AllCandidatesTried
    /\ Len(attempted) >= 2
    /\ connect_errors.latest = "TimeoutError"
    /\ open_socks = {}

\* C29: with address_family ipv4 (ipv6) every address of the probe's printed line is
\* an AF_INET (AF_INET6) address.
C29_PrintedUnderConfiguredFamily ==
    (pc = "connect" /\ args.probe /\ cfg.address_family \in {"ipv4", "ipv6"})
    => \A i \in DOMAIN infos :
         infos[i][2] \in Range(printed_ips) => infos[i][1] = FamilyOf(cfg.address_family)

====
